---- MODULE Spec2Model ----
(***************************************************************************)
(* Model of egui-resources (src/src/lib.rs): the ColorImage <->            *)
(* DynamicImage bridge, the fill resize, and the ResourcesBase loaders.    *)
(*                                                                         *)
(* A Color32 is the tuple <<r, g, b, a>> of its four bytes in memory       *)
(* order.  A ColorImage is [size |-> <<w, h>>, pixels |-> Seq(Color32)].   *)
(* A DynamicImage is [variant, width, height, buf] with buf the flat byte  *)
(* sequence of its ImageBuffer.  A path is the sequence of its components, *)
(* so a filename contains "/" exactly when it has more than one component, *)
(* and it is absolute when its first component is the empty string.        *)
(***************************************************************************)
EXTENDS Integers, Sequences, FiniteSets, TLC

VARIABLES basepath, op, arg, ret

vars == <<basepath, op, arg, ret>>

\* ------------------------------------------------------------- bounds

\* largest width and height of a source image of resized_copy_from
MaxSrcDim == 5
\* largest target width and height of resized_copy_from
MaxDstDim == 3
\* largest pixel count of the images enumerated with every pixel free
MaxFreePix == 2
\* longest font list handed to reg_fonts
MaxFfs == 2

\* ------------------------------------------------------------- helpers

Min(a, b) == IF a < b THEN a ELSE b

Max(a, b) == IF a > b THEN a ELSE b

Abs(a) == IF a < 0 THEN -a ELSE a

Clamp(v, lo, hi) == IF v < lo THEN lo ELSE IF v > hi THEN hi ELSE v

\* floor and ceiling of n / d for d > 0 (\div floors in TLA+)
FloorDiv(n, d) == n \div d

CeilDiv(n, d) == -((-n) \div d)

\* f64::round / f32::round of n / d for n >= 0, d > 0: half away from zero
RoundDiv(n, d) == (2 * n + d) \div (2 * d)

RECURSIVE SumRange(_, _, _)
SumRange(f(_), lo, hi) == IF lo > hi THEN 0 ELSE f(lo) + SumRange(f, lo + 1, hi)

Panic == [tag |-> "panic"]

Ok(v) == [tag |-> "ok", val |-> v]

\* ------------------------------------------------------------- colours

Red == <<255, 0, 0, 255>>

Green == <<0, 255, 0, 255>>

Blue == <<0, 0, 255, 255>>

Yellow == <<255, 255, 0, 255>>

\* a translucent premultiplied colour and an additive colour of alpha 0
Half == <<128, 0, 0, 128>>

Additive == <<255, 0, 0, 0>>

OpaqueColors == {Red, Green}

Colors == OpaqueColors \cup {Half, Additive}

\* the bytes a slice of n Color32 occupies: 4 per pixel, r, g, b, a
Flatten(pixels) ==
  [i \in 1..(4 * Len(pixels)) |-> pixels[((i - 1) \div 4) + 1][((i - 1) % 4) + 1]]

\* ------------------------------------------------------------- ecolor

\* The colour channel c of an unmultiplied pixel of alpha a, 0 < a < 255,
\* premultiplied as Color32::from_rgba_unmultiplied does: through linear
\* space, gamma_u8_from_linear_f32(linear_f32_from_gamma_u8(c) * a / 255).
\* Tabulated at the translucent samples the model draws (alpha 128).
GammaPremultiplied(c, a) ==
  IF c = 0 THEN 0
  ELSE CASE a = 128 /\ c = 128 -> 93
         [] a = 128 /\ c = 255 -> 188

\* Color32::from_rgba_unmultiplied(r, g, b, a): a Color32 holds
\* premultiplied bytes
Color32_from_rgba_unmultiplied(r, g, b, a) ==
  IF a = 255 THEN <<r, g, b, 255>>
  ELSE IF a = 0 THEN <<0, 0, 0, 0>>
  ELSE <<GammaPremultiplied(r, a), GammaPremultiplied(g, a),
         GammaPremultiplied(b, a), a>>

\* ColorImage::from_rgba_unmultiplied(size, rgba): asserts the length, then
\* maps every chunk of 4 bytes
ColorImage_from_rgba_unmultiplied(size, rgba) ==
  IF size[1] * size[2] * 4 # Len(rgba) THEN Panic
  ELSE Ok([size |-> size,
           pixels |-> [i \in 1..(Len(rgba) \div 4) |->
              Color32_from_rgba_unmultiplied(rgba[4 * i - 3], rgba[4 * i - 2],
                                             rgba[4 * i - 1], rgba[4 * i])]])

\* ------------------------------------------------------------- image

Rgba8(width, height, buf) ==
  [variant |-> "ImageRgba8", width |-> width, height |-> height, buf |-> buf]

Rgb8(width, height, buf) ==
  [variant |-> "ImageRgb8", width |-> width, height |-> height, buf |-> buf]

\* RgbaImage::from_raw: None when the buffer is too short for the
\* dimensions, otherwise the buffer as it is
RgbaImage_from_raw(width, height, buf) ==
  IF width * height * 4 <= Len(buf)
  THEN [tag |-> "Some", val |-> Rgba8(width, height, buf)]
  ELSE [tag |-> "None"]

\* RgbaImage::new: every byte 0
RgbaImage_new(width, height) ==
  Rgba8(width, height, [i \in 1..(width * height * 4) |-> 0])

\* DynamicImage::into_rgba8: an Rgba8 image as it is, an Rgb8 image with
\* alpha 255 added to every pixel
into_rgba8(img) ==
  IF img.variant = "ImageRgba8" THEN img
  ELSE Rgba8(img.width, img.height,
         [i \in 1..(img.width * img.height * 4) |->
            IF i % 4 = 0 THEN 255 ELSE img.buf[3 * ((i - 1) \div 4) + ((i - 1) % 4) + 1]])

\* byte c (1..4) of the pixel at (x, y) of an Rgba8 image
GetPixel(img, x, y, c) == img.buf[4 * (y * img.width + x) + c]

FilterTypes == {"Nearest", "Triangle"}

\* Filter.support: 0.0 for Nearest (box_kernel), 1.0 for Triangle
FilterSupport(filter) == IF filter = "Nearest" THEN 0 ELSE 1

\* The sampling of one axis, n source samples to new output samples.  All
\* coordinates are held times 2 * new, so that they are integers: the centre
\* of output sample o is (2 * o + 1) * n, and sratio is 2 * Max(n, new).
SampleLeft(n, new, o, filter) ==
  Clamp(FloorDiv((2 * o + 1) * n - FilterSupport(filter) * 2 * Max(n, new), 2 * new),
        0, n - 1)

SampleRight(n, new, o, filter) ==
  Clamp(CeilDiv((2 * o + 1) * n + FilterSupport(filter) * 2 * Max(n, new), 2 * new),
        SampleLeft(n, new, o, filter) + 1, n)

\* (filter.kernel)((i - (inputx - 0.5)) / sratio), as an integer weight:
\* box_kernel is 1 within 0.5, triangle_kernel is 1 - |x| within 1
SampleWeight(n, new, o, filter, i) ==
  LET d == Abs(2 * new * i - (2 * o + 1) * n + new)
      s == 2 * Max(n, new)
  IN IF filter = "Nearest" THEN (IF 2 * d <= s THEN 1 ELSE 0)
     ELSE (IF d < s THEN s - d ELSE 0)

SampleWeightSum(n, new, o, filter) ==
  SumRange(LAMBDA i : SampleWeight(n, new, o, filter, i),
           SampleLeft(n, new, o, filter), SampleRight(n, new, o, filter) - 1)

\* vertical_sample: the weighted sum of column x for output row oy, channel
\* c, before the division by the weight sum (the f32 intermediate image)
vertical_sample(img, nheight, filter, x, oy, c) ==
  SumRange(LAMBDA i : SampleWeight(img.height, nheight, oy, filter, i) * GetPixel(img, x, i, c),
           SampleLeft(img.height, nheight, oy, filter),
           SampleRight(img.height, nheight, oy, filter) - 1)

\* horizontal_sample of the vertically sampled image: the weighted mean,
\* clamped and rounded to a byte
horizontal_sample(img, nwidth, nheight, filter, ox, oy, c) ==
  Clamp(RoundDiv(
          SumRange(LAMBDA j : SampleWeight(img.width, nwidth, ox, filter, j)
                                * vertical_sample(img, nheight, filter, j, oy, c),
                   SampleLeft(img.width, nwidth, ox, filter),
                   SampleRight(img.width, nwidth, ox, filter) - 1),
          SampleWeightSum(img.width, nwidth, ox, filter)
            * SampleWeightSum(img.height, nheight, oy, filter)),
        0, 255)

\* imageops::resize (DynamicImage::resize_exact): a copy when the dimensions
\* are unchanged, otherwise the vertical and then the horizontal pass
resize_exact(img, nwidth, nheight, filter) ==
  IF nwidth = img.width /\ nheight = img.height THEN img
  ELSE Rgba8(nwidth, nheight,
         [k \in 1..(4 * nwidth * nheight) |->
            horizontal_sample(img, nwidth, nheight, filter,
                              ((k - 1) \div 4) % nwidth, ((k - 1) \div 4) \div nwidth,
                              ((k - 1) % 4) + 1)])

\* resize_dimensions(width, height, nwidth, nheight, fill): the source size
\* times the larger (fill) or smaller of the two ratios, each rounded and at
\* least 1.  width > 0 and height > 0.
resize_dimensions(width, height, nwidth, nheight, fill) ==
  LET wider == nwidth * height >= nheight * width
      useW == IF fill THEN wider ELSE ~wider
      num == IF useW THEN nwidth ELSE nheight
      den == IF useW THEN width ELSE height
  IN <<Max(RoundDiv(width * num, den), 1), Max(RoundDiv(height * num, den), 1)>>

\* DynamicImage::crop_imm: the rectangle is clamped to the image
crop_imm(img, x, y, width, height) ==
  LET x1 == Min(x, img.width)
      y1 == Min(y, img.height)
      w1 == Min(width, img.width - x1)
      h1 == Min(height, img.height - y1)
  IN Rgba8(w1, h1,
       [k \in 1..(4 * w1 * h1) |->
          GetPixel(img, x1 + (((k - 1) \div 4) % w1), y1 + (((k - 1) \div 4) \div w1),
                   ((k - 1) % 4) + 1)])

\* the crop offset of resize_to_fill along the axis that is cut
CropOffset(isize, nsize) == (isize - nsize) \div 2

\* DynamicImage::resize_to_fill: scale the whole image to cover the target,
\* then cut the middle.  The u32 subtraction panics when it underflows.
resize_to_fill(img, nwidth, nheight, filter) ==
  LET dims == resize_dimensions(img.width, img.height, nwidth, nheight, TRUE)
      intermediate == resize_exact(img, dims[1], dims[2], filter)
      iwidth == intermediate.width
      iheight == intermediate.height
      ratio == iwidth * nheight
      nratio == nwidth * iheight
  IN IF nratio > ratio
     THEN (IF iheight < nheight THEN Panic
           ELSE Ok(crop_imm(intermediate, 0, CropOffset(iheight, nheight), nwidth, nheight)))
     ELSE (IF iwidth < nwidth THEN Panic
           ELSE Ok(crop_imm(intermediate, CropOffset(iwidth, nwidth), 0, nwidth, nheight)))

\* ------------------------------------------------------------- lib.rs

\* dynamic_image_from(src).  mem is the memory that follows the pixels'
\* allocation: from_raw_parts reads sw * sh * 4 bytes from &src.pixels[0]
\* whatever the length of src.pixels.  Indexing pixels[0] panics when the
\* vector is empty.
dynamic_image_from(src, mem) ==
  LET sw == src.size[1]
      sh == src.size[2]
  IN IF Len(src.pixels) = 0 THEN Panic
     ELSE LET s == SubSeq(Flatten(src.pixels) \o mem, 1, sw * sh * 4)
              b == RgbaImage_from_raw(sw, sh, s)
          IN Ok(IF b.tag = "None" THEN RgbaImage_new(sw, sh) ELSE b.val)

\* im_flat!(img): (rgba, width, height)
im_flat(img) ==
  LET im == into_rgba8(img)
  IN [rgba |-> im.buf, width |-> im.width, height |-> im.height]

\* color_image_from_dynamic_image calling
\* ColorImage::from_rgba_premultiplied, which copies the bytes
color_image_from_dynamic_image_premultiplied(src) ==
  LET f == im_flat(src)
  IN IF f.width * f.height * 4 # Len(f.rgba) THEN Panic
     ELSE Ok([size |-> <<f.width, f.height>>,
              pixels |-> [i \in 1..(Len(f.rgba) \div 4) |->
                 <<f.rgba[4 * i - 3], f.rgba[4 * i - 2], f.rgba[4 * i - 1], f.rgba[4 * i]>>]])

\* color_image_from_dynamic_image(src)
color_image_from_dynamic_image(src) ==
  LET f == im_flat(src)
  IN ColorImage_from_rgba_unmultiplied(<<f.width, f.height>>, f.rgba)

\* resized_copy_from calling DynamicImage::resize, which fits the image into
\* the target and keeps its aspect ratio
resized_copy_from_resize(wh, src, filter) ==
  LET d == dynamic_image_from(src, <<>>)
  IN IF d.tag = "panic" THEN Panic
     ELSE LET dims == resize_dimensions(d.val.width, d.val.height, wh[1], wh[2], FALSE)
          IN color_image_from_dynamic_image(resize_exact(d.val, dims[1], dims[2], filter))

\* resized_copy_from calling DynamicImage::resize_exact, which stretches the
\* whole image over the target
resized_copy_from_exact(wh, src, filter) ==
  LET d == dynamic_image_from(src, <<>>)
  IN IF d.tag = "panic" THEN Panic
     ELSE color_image_from_dynamic_image(
            resize_exact(d.val, Max(wh[1], 1), Max(wh[2], 1), filter))

\* resized_copy_from(wh, src, filter), for a src whose pixels fill its size
resized_copy_from(wh, src, filter) ==
  LET d == dynamic_image_from(src, <<>>)
  IN IF d.tag = "panic" THEN Panic
     ELSE LET img == resize_to_fill(d.val, wh[1], wh[2], filter)
          IN IF img.tag = "panic" THEN Panic
             ELSE color_image_from_dynamic_image(img.val)

\* ------------------------------------------------------------- egui

\* ColorImage::example(): the fixed 128 x 64 placeholder pattern; its pixels
\* are not spelled out, the image is told apart by its tag
ColorImage_example == [size |-> <<128, 64>>, pixels |-> "example"]

DefaultFontNames == <<"Hack", "Ubuntu-Light", "NotoEmoji-Regular", "emoji-icon-font">>

\* FontDefinitions::default(): the built-in fonts and the two families
FontDefinitions_default ==
  [font_data |-> [n \in {DefaultFontNames[i] : i \in 1..4} |-> [kind |-> "builtin", id |-> n]],
   families |-> [t \in {"Monospace", "Proportional"} |->
                   IF t = "Monospace" THEN DefaultFontNames ELSE Tail(DefaultFontNames)]]

\* BTreeMap::insert
MapInsert(m, k, v) == [x \in (DOMAIN m) \cup {k} |-> IF x = k THEN v ELSE m[x]]

\* BTreeMap::entry(k).or_default() of a map of vectors
OrDefault(m, k) == IF k \in DOMAIN m THEN m[k] ELSE <<>>

\* Vec::insert(0, v)
InsertFront(list, v) == <<v>> \o list

\* ------------------------------------------------------------- files

\* the decoded form of the files that are images
Png4c ==
  Rgba8(4, 4, Flatten(<<Red, Red, Green, Green, Red, Red, Green, Green,
                        Blue, Blue, Yellow, Yellow, Blue, Blue, Yellow, Yellow>>))

PngTranslucent == Rgba8(2, 2, Flatten(<<<<255, 0, 0, 128>>, <<255, 0, 0, 0>>, Green, <<0, 128, 255, 128>>>>))

PngRgb == Rgb8(1, 2, <<255, 0, 0, 0, 0, 255>>)

PngIcon == Rgba8(1, 1, Flatten(<<Blue>>))

Image(img) == [kind |-> "image", img |-> img]

Bytes(id) == [kind |-> "bytes", id |-> id]

Directory == [kind |-> "dir"]

\* The file system the program runs in: every path that exists, with its
\* content.  Relative paths are relative to the working directory.
FileSystem ==
  (<<"resources", "_4c_4x4.png">> :> Image(Png4c))
  @@ (<<"resources", "half.png">> :> Image(PngTranslucent))
  @@ (<<"resources", "rgb.png">> :> Image(PngRgb))
  @@ (<<"resources", "broken.png">> :> Bytes("not an image"))
  @@ (<<"resources", "dir">> :> Directory)
  @@ (<<"resources", "font1.ttf">> :> Bytes("resources/font1.ttf"))
  @@ (<<"resources", "fonts", "jp.ttf">> :> Bytes("resources/fonts/jp.ttf"))
  @@ (<<"font1.ttf">> :> Bytes("./font1.ttf"))
  @@ (<<"fonts", "jp.ttf">> :> Bytes("./fonts/jp.ttf"))
  @@ (<<"rgb.png">> :> Bytes("./rgb.png is text"))
  @@ (<<"", "abs", "icon.png">> :> Image(PngIcon))

Err == [tag |-> "err"]

\* Path::join: an absolute f replaces the base
Join(base, f) == IF Len(f) > 0 /\ f[1] = "" THEN f ELSE base \o f

\* str::contains("/")
ContainsSlash(f) == Len(f) > 1

\* image::load_from_memory
load_from_memory(b) == IF b.kind = "image" THEN Ok(b.img) ELSE Err

\* ResourcesBase::read_bytes(f, p): open, metadata and read each return
\* early on an error; a regular file is read whole
read_bytes(base, f, p) ==
  LET path == IF ~p THEN f ELSE Join(base, f)
  IN IF path \notin DOMAIN FileSystem THEN Err
     ELSE IF FileSystem[path].kind = "dir" THEN Err
     ELSE Ok(FileSystem[path])

\* resource_img unwrapping the decoder's result
resource_img_unwrap(base, f, p) ==
  LET b == read_bytes(base, f, p)
  IN IF b.tag # "ok" THEN Ok(ColorImage_example)
     ELSE LET img == load_from_memory(b.val)
          IN IF img.tag = "ok" THEN color_image_from_dynamic_image(img.val) ELSE Panic

\* ResourcesBase::resource_img(f, p)
resource_img(base, f, p) ==
  LET b == read_bytes(base, f, p)
  IN IF b.tag # "ok" THEN Ok(ColorImage_example)
     ELSE LET img == load_from_memory(b.val)
          IN IF img.tag = "ok" THEN color_image_from_dynamic_image(img.val)
             ELSE Ok(ColorImage_example)

None == [tag |-> "None"]

Some(v) == [tag |-> "Some", val |-> v]

\* ResourcesBase::resource_icon(ico, p)
resource_icon(base, ico, p) ==
  LET b == read_bytes(base, ico, p)
  IN IF b.tag # "ok" THEN None
     ELSE LET img == load_from_memory(b.val)
          IN IF img.tag = "ok" THEN Some(im_flat(img.val)) ELSE None

\* resource_font pushing the name at the back of the family
resource_font_push(base, fonts, n, f, t, p) ==
  LET b == read_bytes(base, f, p)
  IN IF b.tag # "ok" THEN fonts
     ELSE [font_data |-> MapInsert(fonts.font_data, n, b.val),
           families |-> MapInsert(fonts.families, t,
                                  Append(OrDefault(fonts.families, t), n))]

\* ResourcesBase::resource_font(fonts, n, f, t, p)
resource_font(base, fonts, n, f, t, p) ==
  LET b == read_bytes(base, f, p)
  IN IF b.tag # "ok" THEN fonts
     ELSE [font_data |-> MapInsert(fonts.font_data, n, b.val),
           families |-> MapInsert(fonts.families, t,
                                  InsertFront(OrDefault(fonts.families, t), n))]

\* the loop of reg_fonts over ffs[i..]
RECURSIVE RegFontsFrom(_, _, _, _)
RegFontsFrom(base, fonts, ffs, i) ==
  IF i > Len(ffs) THEN fonts
  ELSE RegFontsFrom(base,
         resource_font(base, fonts, ffs[i].n, ffs[i].f, ffs[i].t, ~ContainsSlash(ffs[i].f)),
         ffs, i + 1)

\* ResourcesBase::reg_fonts(ffs)
reg_fonts(base, ffs) == RegFontsFrom(base, FontDefinitions_default, ffs, 1)

\* ------------------------------------------------------------- inputs

Dims(max) == {<<w, h>> : w \in 0..max, h \in 0..max}

\* the image whose pixel at (x, y) is <<x, y, 0, 255>>: every pixel names
\* its own place
Tagged(w, h) ==
  [size |-> <<w, h>>,
   pixels |-> [i \in 1..(w * h) |-> <<(i - 1) % w, (i - 1) \div w, 0, 255>>]]

Solid(w, h, c) == [size |-> <<w, h>>, pixels |-> [i \in 1..(w * h) |-> c]]

\* the square image of side 2 * k made of four solid quadrants: q[1] top
\* left, q[2] top right, q[3] bottom left, q[4] bottom right
Quadrants(k, q) ==
  [size |-> <<2 * k, 2 * k>>,
   pixels |-> [i \in 1..(4 * k * k) |->
      q[(IF (i - 1) \div (2 * k) >= k THEN 2 ELSE 0)
        + (IF (i - 1) % (2 * k) >= k THEN 1 ELSE 0) + 1]]]

QuadrantColors(palette) ==
  UNION {{<<ab[1], ab[2], c, d>> : c \in {Blue, ab[1]}, d \in {Yellow, ab[2]}} :
           ab \in palette \X palette}

QuadrantImages(palette) ==
  {Quadrants(k, q) : k \in 1..(MaxSrcDim \div 2), q \in QuadrantColors(palette)}

SolidImages(palette) ==
  {Solid(d[1], d[2], c) : d \in {e \in Dims(MaxSrcDim) : e[1] > 0 /\ e[2] > 0}, c \in palette}

\* every image of at most MaxFreePix pixels over Colors
FreeImages ==
  UNION {{[size |-> d, pixels |-> px] : px \in [1..(d[1] * d[2]) -> Colors]} :
           d \in {e \in Dims(MaxFreePix) : e[1] * e[2] \in 1..MaxFreePix}}

\* sources whose weighted means are never at a rounding tie: the f32
\* rounding of the interpolating filters is exact on them
ExactImages == QuadrantImages(OpaqueColors) \cup SolidImages(OpaqueColors)

\* the ColorImages whose pixels fill their size, zero-area ones included
ColorImages ==
  {Tagged(d[1], d[2]) : d \in Dims(MaxSrcDim)}
    \cup QuadrantImages(Colors) \cup SolidImages(Colors) \cup FreeImages

\* ColorImages whose pixels do not fill their size (the fields are public)
MismatchedImages ==
  {[size |-> d, pixels |-> px] :
     d \in {<<0, 0>>, <<1, 1>>, <<2, 1>>, <<1, 2>>},
     px \in UNION {[1..n -> {Red, Half}] : n \in 0..3}}
  \ ColorImages

IsValid(src) == Len(src.pixels) = src.size[1] * src.size[2]

\* what the bytes after a too short pixel vector may hold
OutOfBounds(src) ==
  IF Len(src.pixels) = 0 \/ Len(src.pixels) >= src.size[1] * src.size[2]
  THEN {<<>>}
  ELSE {Flatten([i \in 1..(src.size[1] * src.size[2] - Len(src.pixels)) |-> c]) :
          c \in {Green, <<7, 7, 7, 7>>}}

\* decoded images, and one RgbaImage::from_raw accepted with a spare pixel
DynamicImages ==
  {Png4c, PngTranslucent, PngRgb, PngIcon,
   Rgba8(1, 1, Flatten(<<Red, Green>>)), Rgba8(0, 0, <<>>)}
    \cup {dynamic_image_from(x, <<>>).val : x \in FreeImages}

Filenames ==
  {<<"_4c_4x4.png">>, <<"half.png">>, <<"rgb.png">>, <<"broken.png">>, <<"dir">>,
   <<"missing.png">>, <<"font1.ttf">>, <<"resources", "_4c_4x4.png">>,
   <<"resources", "nothing.png">>, <<"", "abs", "icon.png">>, <<"", "abs", "gone.png">>}

FontFamilies == {"Proportional", "Monospace", "Name(jp)"}

FontEntries ==
  {[n |-> n, f |-> f, t |-> t] :
     n \in {"jp", "Hack"},
     f \in {<<"font1.ttf">>, <<"fonts", "jp.ttf">>, <<"missing.ttf">>},
     t \in FontFamilies}

FontLists == UNION {[1..k -> FontEntries] : k \in 0..MaxFfs}

\* ------------------------------------------------------------- actions

Init ==
  /\ basepath = <<"resources">>
  /\ op = "new"
  /\ arg = [basepath |-> basepath]
  /\ ret = [tag |-> "ok"]

\* a call made by the idle caller (op = "new"): one call at a time
Call(name, a, r) ==
  /\ op' = name
  /\ arg' = a
  /\ ret' = r
  /\ UNCHANGED basepath

DynamicImageFrom ==
  /\ op = "new"
  /\ \E src \in ColorImages \cup MismatchedImages :
       \E mem \in OutOfBounds(src) :
         Call("dynamic_image_from", [src |-> src], dynamic_image_from(src, mem))

\* the read past the allocation may also hit unmapped memory
DynamicImageFromFault ==
  /\ op = "new"
  /\ \E src \in MismatchedImages :
       /\ 0 < Len(src.pixels)
       /\ Len(src.pixels) < src.size[1] * src.size[2]
       /\ Call("dynamic_image_from", [src |-> src], [tag |-> "fault"])

ColorImageFromDynamicImage ==
  /\ op = "new"
  /\ \E src \in DynamicImages :
       Call("color_image_from_dynamic_image", [src |-> src],
            color_image_from_dynamic_image(src))

ResizedCopyFrom ==
  /\ op = "new"
  /\ \E src \in ColorImages, wh \in Dims(MaxDstDim), filter \in FilterTypes :
       /\ filter # "Nearest" => src \in ExactImages
       /\ Call("resized_copy_from", [wh |-> wh, src |-> src, filter |-> filter],
               resized_copy_from(wh, src, filter))

ReadBytes ==
  /\ op = "new"
  /\ \E f \in Filenames, p \in BOOLEAN :
       Call("read_bytes", [f |-> f, p |-> p], read_bytes(basepath, f, p))

ResourceImg ==
  /\ op = "new"
  /\ \E f \in Filenames, p \in BOOLEAN :
       Call("resource_img", [f |-> f, p |-> p], resource_img(basepath, f, p))

ResourceIcon ==
  /\ op = "new"
  /\ \E f \in Filenames, p \in BOOLEAN :
       Call("resource_icon", [f |-> f, p |-> p], resource_icon(basepath, f, p))

ResourceFont ==
  /\ op = "new"
  /\ \E e \in FontEntries, p \in BOOLEAN :
       \E fonts \in {FontDefinitions_default} \cup {reg_fonts(basepath, <<x>>) : x \in FontEntries} :
         Call("resource_font", [fonts |-> fonts, n |-> e.n, f |-> e.f, t |-> e.t, p |-> p],
              resource_font(basepath, fonts, e.n, e.f, e.t, p))

RegFonts ==
  /\ op = "new"
  /\ \E ffs \in FontLists :
       Call("reg_fonts", [ffs |-> ffs], reg_fonts(basepath, ffs))

\* the call has returned and its result is dropped
Return ==
  /\ op # "new"
  /\ op' = "new"
  /\ arg' = [basepath |-> basepath]
  /\ ret' = [tag |-> "ok"]
  /\ UNCHANGED basepath

Next ==
  \/ DynamicImageFrom
  \/ DynamicImageFromFault
  \/ ColorImageFromDynamicImage
  \/ ResizedCopyFrom
  \/ ReadBytes
  \/ ResourceImg
  \/ ResourceIcon
  \/ ResourceFont
  \/ RegFonts
  \/ Return

Spec == Init /\ [][Next]_vars

\* ------------------------------------------------------------- claims

IsResize == op = "resized_copy_from"

NonDegenerate(src) == src.size[1] > 0 /\ src.size[2] > 0

Range(seq) == {seq[i] : i \in 1..Len(seq)}

Reverse(seq) == [i \in 1..Len(seq) |-> seq[Len(seq) + 1 - i]]

\* C1: for every ColorImage whose pixels fill its size, dynamic_image_from
\* followed by color_image_from_dynamic_image gives back the same size and
\* the same pixels, channel for channel
C1_RoundTrip ==
  (op = "dynamic_image_from" /\ IsValid(arg.src)) =>
    /\ ret.tag = "ok"
    /\ color_image_from_dynamic_image(ret.val) = Ok(arg.src)

\* C2: for a source of positive width and height, a target of positive
\* width and height and any filter, resized_copy_from returns an image of
\* exactly the target size with w * h pixels
C2_ResizeShape ==
  (IsResize /\ NonDegenerate(arg.src) /\ arg.wh[1] > 0 /\ arg.wh[2] > 0) =>
    /\ ret.tag = "ok"
    /\ ret.val.size = arg.wh
    /\ Len(ret.val.pixels) = arg.wh[1] * arg.wh[2]

C2_Witness ==
  /\ IsResize
  /\ arg.src.size = <<5, 3>>
  /\ arg.wh = <<2, 3>>
  /\ arg.filter = "Triangle"
  /\ ret.tag = "ok"
  /\ ret.val.size = <<2, 3>>

\* the path a call with (f, p) names, and what the file system holds there
PathOf(f, p) == IF p THEN (IF f[1] = "" THEN f ELSE basepath \o f) ELSE f

Readable(path) == path \in DOMAIN FileSystem /\ FileSystem[path].kind # "dir"

Decodable(path) == Readable(path) /\ FileSystem[path].kind = "image"

\* C3: when the bytes cannot be read or decoded, resource_img returns the
\* placeholder image and resource_icon returns None, neither panics, and on
\* a successful decode resource_icon returns Some with the decoded width and
\* height
C3_FailSoft ==
  /\ op = "resource_img" =>
       /\ ret.tag = "ok"
       /\ ~Decodable(PathOf(arg.f, arg.p)) => ret.val = ColorImage_example
  /\ op = "resource_icon" =>
       /\ ret.tag \in {"Some", "None"}
       /\ ~Decodable(PathOf(arg.f, arg.p)) => ret = None
       /\ Decodable(PathOf(arg.f, arg.p)) =>
            /\ ret.tag = "Some"
            /\ ret.val.width = FileSystem[PathOf(arg.f, arg.p)].img.width
            /\ ret.val.height = FileSystem[PathOf(arg.f, arg.p)].img.height

C3_Witness ==
  \/ /\ op = "resource_img"
     /\ arg.f = <<"broken.png">>
     /\ arg.p
     /\ ret = Ok(ColorImage_example)
  \/ /\ op = "resource_icon"
     /\ arg.f = <<"", "abs", "icon.png">>
     /\ ret.tag = "Some"
     /\ ret.val.width = 1

\* C4: whenever the declared size disagrees with the element count, the
\* conversion fails with a ShapeMismatch error and returns no image
C4_ShapeMismatch ==
  /\ (op = "dynamic_image_from" /\ ~IsValid(arg.src)) => ret.tag = "ShapeMismatch"
  /\ (/\ op = "color_image_from_dynamic_image"
      /\ arg.src.variant = "ImageRgba8"
      /\ Len(arg.src.buf) # arg.src.width * arg.src.height * 4) => ret.tag = "ShapeMismatch"

\* C5: a source of zero area with a target of positive width and height
\* makes resized_copy_from fail with a DegenerateSource error value
C5_DegenerateSource ==
  (/\ IsResize
   /\ IsValid(arg.src)
   /\ ~NonDegenerate(arg.src)
   /\ arg.wh[1] > 0
   /\ arg.wh[2] > 0) => ret.tag = "DegenerateSource"

\* C6: for every source and filter, a target with w = 0 or h = 0 succeeds
\* and returns an image of the target size with zero pixels
C6_DegenerateTarget ==
  (IsResize /\ (arg.wh[1] = 0 \/ arg.wh[2] = 0)) =>
    /\ ret.tag = "ok"
    /\ ret.val.size = arg.wh
    /\ Len(ret.val.pixels) = 0

\* what C6 says, of the sources that have pixels
DegenerateTargetOfNonEmptySource ==
  (IsResize /\ NonDegenerate(arg.src) /\ (arg.wh[1] = 0 \/ arg.wh[2] = 0)) =>
    /\ ret.tag = "ok"
    /\ ret.val.size = arg.wh
    /\ Len(ret.val.pixels) = 0

\* C7: with the Nearest filter every output pixel is an unmodified copy of
\* a source pixel, and four equal solid quadrants resized to [2, 2] give the
\* four quadrant colours in row-major order
C7_NearestCopy ==
  (IsResize /\ arg.filter = "Nearest" /\ ret.tag = "ok") =>
    /\ Range(ret.val.pixels) \subseteq Range(arg.src.pixels)
    /\ \A k \in 1..(MaxSrcDim \div 2 + 1), q \in QuadrantColors(Colors) :
         (arg.src = Quadrants(k, q) /\ arg.wh = <<2, 2>>) =>
           ret.val = [size |-> <<2, 2>>, pixels |-> q]

\* what C7 says, of the sources whose pixels are all opaque
NearestCopyOfOpaqueSource ==
  (/\ IsResize
   /\ arg.filter = "Nearest"
   /\ NonDegenerate(arg.src)
   /\ \A c \in Range(arg.src.pixels) : c[4] = 255) =>
    /\ ret.tag = "ok"
    /\ Range(ret.val.pixels) \subseteq Range(arg.src.pixels)
    /\ \A k \in 1..(MaxSrcDim \div 2 + 1), q \in QuadrantColors(Colors) :
         (arg.src = Quadrants(k, q) /\ arg.wh = <<2, 2>>) =>
           ret.val = [size |-> <<2, 2>>, pixels |-> q]

IsUnpack ==
  /\ op = "color_image_from_dynamic_image"
  /\ arg.src.variant = "ImageRgba8"
  /\ Len(arg.src.buf) = arg.src.width * arg.src.height * 4

IsTaggedResize ==
  /\ IsResize
  /\ arg.filter = "Nearest"
  /\ NonDegenerate(arg.src)
  /\ arg.src = Tagged(arg.src.size[1], arg.src.size[2])
  /\ arg.wh[1] > 0
  /\ arg.wh[2] > 0
  /\ ret.tag = "ok"

\* the source pixel (x, y) meets the centred rectangle of the target aspect
\* ratio that keeps the full height (source wider than the target) or the
\* full width (otherwise), widened on each of its two cut sides by m / 4 of
\* the source extent of one output pixel
MeetsRectangle(sw, sh, w, h, x, y, m) ==
  IF sw * h > sh * w
  THEN /\ 4 * h * (x + 1) + m * sh > 2 * (sw * h - w * sh)
       /\ 4 * h * x < 2 * (sw * h + w * sh) + m * sh
  ELSE /\ 4 * w * (y + 1) + m * sw > 2 * (sh * w - h * sw)
       /\ 4 * w * y < 2 * (sh * w + h * sw) + m * sw

EntryPath(e) == IF Len(e.f) > 1 THEN e.f ELSE basepath \o e.f

EntryRead(e) == Readable(EntryPath(e))

\* the names of the entries of family t that were read, in the order of ffs
NamesRead(ffs, t) ==
  LET kept == SelectSeq(ffs, LAMBDA e : e.t = t /\ EntryRead(e))
  IN [i \in 1..Len(kept) |-> kept[i].n]

\* what C10 says of the families, and of the entries that were not read
FontOrder(ffs, fonts) ==
  /\ DOMAIN fonts.families =
       DOMAIN FontDefinitions_default.families
         \cup {ffs[i].t : i \in {j \in 1..Len(ffs) : EntryRead(ffs[j])}}
  /\ \A t \in DOMAIN fonts.families :
       fonts.families[t] =
         Reverse(NamesRead(ffs, t)) \o OrDefault(FontDefinitions_default.families, t)
  /\ DOMAIN fonts.font_data =
       DOMAIN FontDefinitions_default.font_data
         \cup {ffs[i].n : i \in {j \in 1..Len(ffs) : EntryRead(ffs[j])}}
  /\ \A n \in DOMAIN FontDefinitions_default.font_data :
       (\A i \in 1..Len(ffs) : ffs[i].n = n => ~EntryRead(ffs[i])) =>
         fonts.font_data[n] = FontDefinitions_default.font_data[n]

\* C10 as stated: the names read stand at the front of their family in
\* reverse order, ahead of the defaults, and the name of every entry that
\* was read maps to the bytes of that entry's file
C10_FontOrder ==
  op = "reg_fonts" =>
    /\ FontOrder(arg.ffs, ret)
    /\ \A i \in 1..Len(arg.ffs) :
         EntryRead(arg.ffs[i]) =>
           ret.font_data[arg.ffs[i].n] = FileSystem[EntryPath(arg.ffs[i])]

\* C10 as amended: a name maps to the bytes of the file of the last entry
\* of ffs with that name that was read
C10_FontOrderLast ==
  op = "reg_fonts" =>
    /\ FontOrder(arg.ffs, ret)
    /\ \A i \in 1..Len(arg.ffs) :
         (/\ EntryRead(arg.ffs[i])
          /\ \A j \in (i + 1)..Len(arg.ffs) :
               arg.ffs[j].n = arg.ffs[i].n => ~EntryRead(arg.ffs[j])) =>
           ret.font_data[arg.ffs[i].n] = FileSystem[EntryPath(arg.ffs[i])]

C10_Witness ==
  /\ op = "reg_fonts"
  /\ Len(arg.ffs) = 2
  /\ arg.ffs[1].n = "jp"
  /\ arg.ffs[2].n = "Hack"
  /\ arg.ffs[1].f = <<"font1.ttf">>
  /\ arg.ffs[2].f = <<"fonts", "jp.ttf">>
  /\ arg.ffs[1].t = "Monospace"
  /\ arg.ffs[2].t = "Monospace"
  /\ SubSeq(ret.families["Monospace"], 1, 3) = <<"Hack", "jp", "Hack">>
  /\ ret.font_data["jp"] = Bytes("resources/font1.ttf")
  /\ ret.font_data["Hack"] = Bytes("./fonts/jp.ttf")

====
